---- MODULE Spec2Model ----
(***************************************************************************)
(* Model of parity/dapps.rs: the registrar contract clients of the full    *)
(* and the light client (ContractClient for FullRegistrar, LightRegistrar) *)
(* and the dapps middleware factory (new, server::dapps_middleware in both *)
(* build variants).                                                        *)
(*                                                                         *)
(* Three specifications, one per independent part of the file:             *)
(*   Spec          LightRegistrar::call, step by step, interleaved with    *)
(*                 the light client importing headers, the network going   *)
(*                 up and down and the on-demand service answering;        *)
(*   RegistrarSpec FullRegistrar::registrar and LightRegistrar::registrar  *)
(*                 over bounded "registrar" engine parameters;             *)
(*   FactorySpec   new() and dapps_middleware in either build variant.     *)
(***************************************************************************)
EXTENDS Integers, Sequences, FiniteSets, TLC

(***************************************************************************)
(* Bounds of the model.                                                    *)
(***************************************************************************)
\* the light client's best block number runs over 0..MaxBlock
MaxBlock == 1
\* longest stored "registrar" parameter, in characters
MaxParamLen == 3
\* number of new() invocations in one behaviour
MaxNew == 2
\* number of HTTP requests handed to a mounted middleware
MaxRequests == 2
\* width of an Address in bytes (20 in the program; scaled down)
AddrBytes == 1

(***************************************************************************)
(* Values.                                                                 *)
(***************************************************************************)
\* Option::None, and Option::Some(v) as <<"Some", v>>
None == <<"None">>

\* a receiver or result slot that holds nothing yet
Unset == <<"Unset">>

Ok(v) == <<"Ok", v>>

Err(e) == <<"Err", e>>

IsOk(r) == r[1] = "Ok"

IsErr(r) == r[1] = "Err"

\* util::Bytes: the call inputs and the execution outputs tried
Inputs == {<<>>, <<1, 0>>}

Outputs == {<<>>, <<0, 1>>}

\* util::Address: AddrBytes bytes, each written here as one number
ZeroAddress == [i \in 1..AddrBytes |-> 0]

CallAddresses == {ZeroAddress, [i \in 1..AddrBytes |-> 10]}

\* the network context the sync layer hands to with_context's closure
NetContext == "ctx"

\* account_start_nonce of the engines modelled (0, and morden's 2^20)
StartNonces == {0, 1048576}

\* Display texts of the ExecutionError values the on-demand service can return
ExecutionErrors == {"Transaction has invalid signature."}

\* the threads that use the registrar concurrently; each makes any number of
\* calls, one after the other
CallIds == {1, 2}

(***************************************************************************)
(* State.                                                                  *)
(***************************************************************************)
VARIABLES
    best,          \* light client: number of the best block
    netEnabled,    \* sync layer: whether with_context has a context to give
    startNonce,    \* engine: account_start_nonce()
    pc,            \* per call: position in LightRegistrar::call
    args,          \* per call: (address, data)
    header,        \* per call: local `header`
    env_info,      \* per call: local `env_info`
    submitted,     \* per call: TransactionProof requests handed to OnDemand
    odResp,        \* per call: state of the on-demand receiver
    result,        \* per call: what the returned BoxFuture resolved to
    additional_params,  \* engine: additional_params()
    fullRes,       \* result of FullRegistrar::registrar, once called
    lightRes,      \* result of LightRegistrar::registrar, once called
    feature,       \* build variant: TRUE iff feature "dapps" is compiled in
    newResults,    \* results of the new() invocations so far
    mwCalls,       \* number of dapps_middleware invocations
    touched,       \* collaborators of Dependencies used so far
    served,        \* requests handled by a mounted middleware
    panicked       \* a thread hit unreachable!()

callVars == <<best, netEnabled, startNonce, pc, args, header, env_info, submitted, odResp, result>>

registrarVars == <<additional_params, fullRes, lightRes>>

factoryVars == <<feature, newResults, mwCalls, touched, served, panicked>>

vars == <<callVars, registrarVars, factoryVars>>

(***************************************************************************)
(* Light client and on-demand service, at their interface.                 *)
(***************************************************************************)
\* locals of a call that were not assigned yet (no block has number -1)
NoArgs == [address |-> <<>>, data |-> <<>>]

NoHeader == [number |-> -1]

NoEnvInfo == [number |-> -1]

\* LightClient::best_block_header when the best block is number n
HeaderOf(n) == [number |-> n]

\* LightClient::latest_env_info when the best block is number n
EnvInfoOf(n) == [number |-> n]

Pending == <<"Pending">>

Canceled == Err("Canceled")

\* what the on-demand receiver can resolve to:
\* Ok(Ok(executed)), Ok(Err(execution error)), Err(Canceled)
OnDemandResponses ==
    {Ok(Ok([output |-> o])) : o \in Outputs}
        \cup {Ok(Err(e)) : e \in ExecutionErrors}
        \cup {Canceled}

(***************************************************************************)
(* LightRegistrar::call                                                    *)
(***************************************************************************)
NetworkDisabled == "cannot query registry: network disabled"

RequestDropped == "On-demand service dropped request unexpectedly."

ExecutionFailedPrefix == "Failed to execute transaction: "

\* Transaction::fake_sign(from): the transaction with `from` as its sender
fake_sign(tx, from) == [unsigned |-> tx, sender |-> from]

\* mutant: the nonce hard-coded instead of read from the engine
SyntheticTx_zeroNonce(address, data, nonce) ==
    fake_sign([nonce |-> 0,
               action |-> <<"Call", address>>,
               gas |-> 50000000,
               gas_price |-> 0,
               value |-> 0,
               data |-> data], ZeroAddress)

\* the transaction built for the proof request
SyntheticTx(address, data, nonce) ==
    fake_sign([nonce |-> nonce,
               action |-> <<"Call", address>>,
               gas |-> 50000000,
               gas_price |-> 0,
               value |-> 0,
               data |-> data], ZeroAddress)

\* on_demand::request::TransactionProof
TransactionProof(address, data, nonce, h, e) ==
    [tx |-> SyntheticTx(address, data, nonce),
     header |-> h,
     env_info |-> e,
     engine |-> [account_start_nonce |-> nonce]]

\* mutant: the output loses its last byte
ThenMap_truncates(res) ==
    IF IsOk(res)
    THEN IF IsOk(res[2])
         THEN Ok(SubSeq(res[2][2].output, 1, Len(res[2][2].output) - 1))
         ELSE Err(ExecutionFailedPrefix \o res[2][2])
    ELSE Err(RequestDropped)

\* mutant: a dropped request is reported as an empty successful output
ThenMap_swallowsDrop(res) ==
    IF IsOk(res)
    THEN IF IsOk(res[2])
         THEN Ok(res[2][2].output)
         ELSE Err(ExecutionFailedPrefix \o res[2][2])
    ELSE Ok(<<>>)

\* mutant: the execution error's text is left out of the message
ThenMap_dropsDetail(res) ==
    IF IsOk(res)
    THEN IF IsOk(res[2])
         THEN Ok(res[2][2].output)
         ELSE Err("Failed to execute transaction")
    ELSE Err(RequestDropped)

\* the closure given to .then()
ThenMap(res) ==
    IF IsOk(res)
    THEN IF IsOk(res[2])
         THEN Ok(res[2][2].output)
         ELSE Err(ExecutionFailedPrefix \o res[2][2])
    ELSE Err(RequestDropped)

\* `let (header, env_info) = (best_block_header(), latest_env_info())`:
\* two reads of the shared light client, the header first
CallReadHeader(c, address, data) ==
    /\ pc[c] \in {"idle", "done"}
    /\ args' = [args EXCEPT ![c] = [address |-> address, data |-> data]]
    /\ header' = [header EXCEPT ![c] = HeaderOf(best)]
    /\ pc' = [pc EXCEPT ![c] = "header_read"]
    /\ env_info' = [env_info EXCEPT ![c] = NoEnvInfo]
    /\ submitted' = [submitted EXCEPT ![c] = <<>>]
    /\ odResp' = [odResp EXCEPT ![c] = Unset]
    /\ result' = [result EXCEPT ![c] = Unset]
    /\ UNCHANGED <<best, netEnabled, startNonce>>
    /\ UNCHANGED <<registrarVars, factoryVars>>

CallReadEnvInfo(c) ==
    /\ pc[c] = "header_read"
    /\ env_info' = [env_info EXCEPT ![c] = EnvInfoOf(best)]
    /\ pc' = [pc EXCEPT ![c] = "snapshot"]
    /\ UNCHANGED <<best, netEnabled, startNonce, args, header, submitted, odResp, result>>
    /\ UNCHANGED <<registrarVars, factoryVars>>

\* mutant: without a context the request is queued with the on-demand
\* service all the same
CallWithContext_queues(c) ==
    /\ pc[c] = "snapshot"
    /\ submitted' = [submitted EXCEPT ![c] = Append(@,
           [ctx |-> NetContext,
            request |-> TransactionProof(args[c].address, args[c].data,
                                         startNonce, header[c], env_info[c])])]
    /\ odResp' = [odResp EXCEPT ![c] = Pending]
    /\ pc' = [pc EXCEPT ![c] = "waiting"]
    /\ UNCHANGED <<best, netEnabled, startNonce, args, header, env_info, result>>
    /\ UNCHANGED <<registrarVars, factoryVars>>

\* self.sync.with_context(closure) and the match on maybe_future
CallWithContext(c) ==
    /\ pc[c] = "snapshot"
    /\ IF netEnabled
       THEN /\ submitted' = [submitted EXCEPT ![c] = Append(@,
                   [ctx |-> NetContext,
                    request |-> TransactionProof(args[c].address, args[c].data,
                                                 startNonce, header[c], env_info[c])])]
            /\ odResp' = [odResp EXCEPT ![c] = Pending]
            /\ pc' = [pc EXCEPT ![c] = "waiting"]
            /\ UNCHANGED result
       ELSE /\ result' = [result EXCEPT ![c] = Err(NetworkDisabled)]
            /\ pc' = [pc EXCEPT ![c] = "done"]
            /\ UNCHANGED <<submitted, odResp>>
    /\ UNCHANGED <<best, netEnabled, startNonce, args, header, env_info>>
    /\ UNCHANGED <<registrarVars, factoryVars>>

\* the on-demand service completes or drops the request's sender
OnDemandRespond(c, r) ==
    /\ pc[c] = "waiting"
    /\ odResp[c] = Pending
    /\ odResp' = [odResp EXCEPT ![c] = r]
    /\ UNCHANGED <<best, netEnabled, startNonce, pc, args, header, env_info, submitted, result>>
    /\ UNCHANGED <<registrarVars, factoryVars>>

\* mutant: a dropped request is submitted again instead of reported
FuturePoll_retries(c) ==
    /\ pc[c] = "waiting"
    /\ odResp[c] # Pending
    /\ IF odResp[c] = Canceled
       THEN /\ submitted' = [submitted EXCEPT ![c] = Append(@, @[1])]
            /\ odResp' = [odResp EXCEPT ![c] = Pending]
            /\ UNCHANGED <<pc, result>>
       ELSE /\ result' = [result EXCEPT ![c] = ThenMap(odResp[c])]
            /\ pc' = [pc EXCEPT ![c] = "done"]
            /\ UNCHANGED <<submitted, odResp>>
    /\ UNCHANGED <<best, netEnabled, startNonce, args, header, env_info>>
    /\ UNCHANGED <<registrarVars, factoryVars>>

\* the executor polls the boxed future: .then() runs once the receiver is ready
FuturePoll(c) ==
    /\ pc[c] = "waiting"
    /\ odResp[c] # Pending
    /\ result' = [result EXCEPT ![c] = ThenMap(odResp[c])]
    /\ pc' = [pc EXCEPT ![c] = "done"]
    /\ UNCHANGED <<best, netEnabled, startNonce, args, header, env_info, submitted, odResp>>
    /\ UNCHANGED <<registrarVars, factoryVars>>

\* the light client imports a header: the best block advances
AdvanceBest ==
    /\ best < MaxBlock
    /\ best' = best + 1
    /\ UNCHANGED <<netEnabled, startNonce, pc, args, header, env_info, submitted, odResp, result>>
    /\ UNCHANGED <<registrarVars, factoryVars>>

\* the network service comes up or goes down
NetworkToggle ==
    /\ netEnabled' = ~netEnabled
    /\ UNCHANGED <<best, startNonce, pc, args, header, env_info, submitted, odResp, result>>
    /\ UNCHANGED <<registrarVars, factoryVars>>

CallInit ==
    /\ best = 0
    /\ netEnabled \in BOOLEAN
    /\ startNonce \in StartNonces
    /\ pc = [c \in CallIds |-> "idle"]
    /\ args = [c \in CallIds |-> NoArgs]
    /\ header = [c \in CallIds |-> NoHeader]
    /\ env_info = [c \in CallIds |-> NoEnvInfo]
    /\ submitted = [c \in CallIds |-> <<>>]
    /\ odResp = [c \in CallIds |-> Unset]
    /\ result = [c \in CallIds |-> Unset]

CallNext ==
    \/ \E c \in CallIds, a \in CallAddresses, d \in Inputs : CallReadHeader(c, a, d)
    \/ \E c \in CallIds : CallReadEnvInfo(c)
    \/ \E c \in CallIds : CallWithContext(c)
    \/ \E c \in CallIds, r \in OnDemandResponses : OnDemandRespond(c, r)
    \/ \E c \in CallIds : FuturePoll(c)
    \/ AdvanceBest
    \/ NetworkToggle

(***************************************************************************)
(* FullRegistrar::registrar and LightRegistrar::registrar                  *)
(***************************************************************************)
\* the characters of the stored parameters tried: two hex digits, one not
ParamChars == {"0", "a", "g"}

HexDigits == {"0", "a"}

HexVal(ch) == IF ch = "a" THEN 10 ELSE 0

ParamStrings == UNION {[1..k -> ParamChars] : k \in 0..MaxParamLen}

\* the additional_params() maps tried: no "registrar" key (with or without
\* another key), or "registrar" bound to a string
EngineParams ==
    {<<>>, "eip98Transition" :> <<"0">>}
        \cup {"registrar" :> s : s \in ParamStrings}
        \cup {("registrar" :> s) @@ ("eip98Transition" :> <<"0">>) : s \in {<<"a", "0">>, <<"g">>}}

\* map.get(key)
Get(map, key) == IF key \in DOMAIN map THEN <<"Some", map[key]>> ELSE None

\* FromHex::from_hex: the bytes of a string of hex digits
from_hex(s) ==
    IF \E i \in 1..Len(s) : s[i] \notin HexDigits
    THEN Err("InvalidHexCharacter")
    ELSE IF Len(s) % 2 = 1
         THEN Err("InvalidHexLength")
         ELSE Ok([i \in 1..(Len(s) \div 2) |-> 16 * HexVal(s[2 * i - 1]) + HexVal(s[2 * i])])

\* <Address as FromStr>::from_str: AddrBytes bytes of hex, else a FromHexError
Address_from_str(s) ==
    LET hex == from_hex(s)
    IN  IF IsOk(hex) /\ Len(hex[2]) = AddrBytes
        THEN Ok(hex[2])
        ELSE Err("InvalidHexLength")

\* format!("Invalid registrar address: {:?}", e)
InvalidRegistrar(e) == "Invalid registrar address: " \o e

RegistrarNotDefined == "Registrar not defined."

\* .ok_or_else(..).and_then(|registrar| registrar.parse().map_err(..))
FullRegistrar_registrar(params) ==
    LET registrar == Get(params, "registrar")
    IN  IF registrar = None
        THEN Err(RegistrarNotDefined)
        ELSE LET parsed == Address_from_str(registrar[2])
             IN  IF IsOk(parsed) THEN parsed ELSE Err(InvalidRegistrar(parsed[2]))

\* mutant: a missing parameter falls back to the default address
LightRegistrar_registrar_default(params) ==
    LET registrar == Get(params, "registrar")
    IN  IF registrar = None
        THEN Ok(ZeroAddress)
        ELSE LET parsed == Address_from_str(registrar[2])
             IN  IF IsOk(parsed) THEN parsed ELSE Err(InvalidRegistrar(parsed[2]))

LightRegistrar_registrar(params) ==
    LET registrar == Get(params, "registrar")
    IN  IF registrar = None
        THEN Err(RegistrarNotDefined)
        ELSE LET parsed == Address_from_str(registrar[2])
             IN  IF IsOk(parsed) THEN parsed ELSE Err(InvalidRegistrar(parsed[2]))

\* a caller asks the full client's registrar for the address
FullRegistrarCall ==
    /\ fullRes' = FullRegistrar_registrar(additional_params)
    /\ UNCHANGED <<additional_params, lightRes>>
    /\ UNCHANGED <<callVars, factoryVars>>

\* a caller asks the light client's registrar for the address
LightRegistrarCall ==
    /\ lightRes' = LightRegistrar_registrar(additional_params)
    /\ UNCHANGED <<additional_params, fullRes>>
    /\ UNCHANGED <<callVars, factoryVars>>

RegistrarInit ==
    /\ additional_params \in EngineParams
    /\ fullRes = Unset
    /\ lightRes = Unset

RegistrarNext == FullRegistrarCall \/ LightRegistrarCall

(***************************************************************************)
(* new() and server::dapps_middleware                                      *)
(***************************************************************************)
HostingNotCompiled == "Your Parity version has been compiled without WebApps support."

\* the Configuration values tried
Configurations ==
    [enabled : BOOLEAN, dapps_path : {"/base/dapps", "/tmp/dapps"},
     extra_dapps : {<<>>, <<"/extra">>}]

\* the Dependencies bundle: each field names the collaborator it holds
deps ==
    [sync_status |-> "sync_status", contract_client |-> "contract_client",
     remote |-> "remote", fetch |-> "fetch", signer |-> "signer"]

\* mutant: the stub hands out its Middleware
dapps_middleware_stub_ok(d, dapps_path, extra_dapps) ==
    [result |-> Ok([stub |-> TRUE]), touched |-> {}]

\* #[cfg(not(feature = "dapps"))] server::dapps_middleware
dapps_middleware_stub(d, dapps_path, extra_dapps) ==
    [result |-> Err(HostingNotCompiled), touched |-> {}]

\* #[cfg(feature = "dapps")] server::dapps_middleware
dapps_middleware_hosting(d, dapps_path, extra_dapps) ==
    [result |-> Ok([remote |-> d.remote,
                    signer_address |-> <<d.signer, "address">>,
                    dapps_path |-> dapps_path,
                    extra_dapps |-> extra_dapps,
                    registrar |-> d.contract_client,
                    sync_status |-> d.sync_status,
                    web_proxy_tokens |-> <<d.signer, "is_valid_web_proxy_access_token">>,
                    fetch |-> d.fetch]),
     touched |-> {d.signer, d.remote, d.contract_client, d.sync_status, d.fetch}]

\* pub use self::server::dapps_middleware: the variant compiled in
dapps_middleware(d, dapps_path, extra_dapps) ==
    IF feature
    THEN dapps_middleware_hosting(d, dapps_path, extra_dapps)
    ELSE dapps_middleware_stub(d, dapps_path, extra_dapps)

\* mutant: the enabled flag is not looked at
new_ignoresEnabled(configuration, d) ==
    LET made == dapps_middleware(d, configuration.dapps_path, configuration.extra_dapps)
    IN  [result |-> IF IsOk(made.result) THEN Ok(<<"Some", made.result[2]>>) ELSE made.result,
         invoked |-> TRUE,
         touched |-> made.touched]

\* pub fn new(configuration, deps): its result, whether it invoked
\* dapps_middleware, and the collaborators that invocation used
new(configuration, d) ==
    IF ~configuration.enabled
    THEN [result |-> Ok(None), invoked |-> FALSE, touched |-> {}]
    ELSE LET made == dapps_middleware(d, configuration.dapps_path, configuration.extra_dapps)
         IN  [result |-> IF IsOk(made.result) THEN Ok(<<"Some", made.result[2]>>) ELSE made.result,
              invoked |-> TRUE,
              touched |-> made.touched]

\* the node's startup code calls new()
New(configuration) ==
    /\ Len(newResults) < MaxNew
    /\ LET out == new(configuration, deps)
       IN  /\ newResults' = Append(newResults, [configuration |-> configuration, out |-> out])
           /\ mwCalls' = mwCalls + (IF out.invoked THEN 1 ELSE 0)
           /\ touched' = touched \cup out.touched
    /\ UNCHANGED <<feature, served, panicked>>
    /\ UNCHANGED <<callVars, registrarVars>>

\* a new() result that holds a middleware
HoldsMiddleware(r) == IsOk(r) /\ r[2] # None

\* the HTTP server hands a request to a middleware new() returned:
\* Middleware::on_request, which is unreachable!() in the stub
OnRequest ==
    /\ served < MaxRequests
    /\ ~panicked
    /\ \E i \in 1..Len(newResults) : HoldsMiddleware(newResults[i].out.result)
    /\ IF feature
       THEN served' = served + 1 /\ UNCHANGED panicked
       ELSE panicked' = TRUE /\ UNCHANGED served
    /\ UNCHANGED <<feature, newResults, mwCalls, touched>>
    /\ UNCHANGED <<callVars, registrarVars>>

FactoryInit ==
    /\ feature \in BOOLEAN
    /\ newResults = <<>>
    /\ mwCalls = 0
    /\ touched = {}
    /\ served = 0
    /\ panicked = FALSE

FactoryNext ==
    \/ \E configuration \in Configurations : New(configuration)
    \/ OnRequest

(***************************************************************************)
(* Specifications.                                                         *)
(***************************************************************************)
\* the parts that a specification leaves alone stay as constructed
CallIdle ==
    /\ best = 0
    /\ netEnabled = TRUE
    /\ startNonce = 0
    /\ pc = [c \in CallIds |-> "idle"]
    /\ args = [c \in CallIds |-> NoArgs]
    /\ header = [c \in CallIds |-> NoHeader]
    /\ env_info = [c \in CallIds |-> NoEnvInfo]
    /\ submitted = [c \in CallIds |-> <<>>]
    /\ odResp = [c \in CallIds |-> Unset]
    /\ result = [c \in CallIds |-> Unset]

RegistrarIdle ==
    /\ additional_params = <<>>
    /\ fullRes = Unset
    /\ lightRes = Unset

FactoryIdle ==
    /\ feature = FALSE
    /\ newResults = <<>>
    /\ mwCalls = 0
    /\ touched = {}
    /\ served = 0
    /\ panicked = FALSE

Init == CallInit /\ RegistrarIdle /\ FactoryIdle

Next == CallNext

Spec == Init /\ [][Next]_vars

InitRegistrar == CallIdle /\ RegistrarInit /\ FactoryIdle

NextRegistrar == RegistrarNext

RegistrarSpec == InitRegistrar /\ [][NextRegistrar]_vars

InitFactory == CallIdle /\ RegistrarIdle /\ FactoryInit

NextFactory == FactoryNext

FactorySpec == InitFactory /\ [][NextFactory]_vars

\* the executor polls every future it was given until it resolves
FairSpec == Spec /\ \A c \in CallIds : WF_vars(FuturePoll(c))

(***************************************************************************)
(* Properties of LightRegistrar::call (Spec, FairSpec).                    *)
(***************************************************************************)
\* the call in slot c handed a request to the on-demand service
HasSubmitted(c) == Len(submitted[c]) > 0

\* C1: when with_context has no context to give, the call resolves to the
\* "network disabled" error in that very step, and no TransactionProof is
\* handed to the on-demand service, then or later in that call.
C1_NetworkDisabled ==
    /\ [][\A c \in CallIds :
            (pc[c] = "snapshot" /\ ~netEnabled /\ pc'[c] # "snapshot")
                => /\ pc'[c] = "done"
                   /\ result'[c] = Err("cannot query registry: network disabled")
                   /\ submitted'[c] = <<>>
                   /\ odResp'[c] = Unset]_vars
    /\ [](\A c \in CallIds :
            result[c] = Err("cannot query registry: network disabled")
                => pc[c] = "done" /\ submitted[c] = <<>> /\ odResp[c] = Unset)

C1_Witness ==
    \E c \in CallIds :
        /\ pc[c] = "done"
        /\ result[c] = Err("cannot query registry: network disabled")
        /\ ~netEnabled

\* C2: when the proof request resolved with a successful execution, the
\* call resolves to Ok with exactly the execution's output bytes.
C2_OutputExact ==
    \A c \in CallIds :
        (pc[c] = "done" /\ IsOk(odResp[c]) /\ IsOk(odResp[c][2]))
            => result[c] = Ok(odResp[c][2][2].output)

C2_Witness ==
    \E c \in CallIds :
        /\ pc[c] = "done"
        /\ odResp[c] = Ok(Ok([output |-> <<0, 1>>]))
        /\ result[c] = Ok(<<0, 1>>)
        /\ args[c].address # ZeroAddress
        /\ args[c].data # <<>>

\* C3: once the on-demand service dropped a submitted request, the call
\* either is ready to resolve or has resolved to the "dropped" error (an
\* error value, not a panic), and under fair polling it does resolve to it.
C3_RequestDropped ==
    /\ [](\A c \in CallIds :
            odResp[c] = Canceled
                => /\ HasSubmitted(c)
                   /\ \/ pc[c] = "waiting" /\ ENABLED FuturePoll(c)
                      \/ /\ pc[c] = "done"
                         /\ result[c] = Err("On-demand service dropped request unexpectedly."))
    /\ \A c \in CallIds :
            (odResp[c] = Canceled)
                ~> (result[c] = Err("On-demand service dropped request unexpectedly."))

C3_Witness ==
    \E c \in CallIds :
        /\ odResp[c] = Canceled
        /\ pc[c] = "done"
        /\ result[c] = Err("On-demand service dropped request unexpectedly.")

\* C4: a call hands at most one request to the on-demand service, and once
\* its request was answered or dropped nothing more is submitted for it and
\* its result, once set, stays what it is (until the slot starts a new call).
C4_NoRetry ==
    /\ [](\A c \in CallIds : Len(submitted[c]) <= 1)
    /\ [][\A c \in CallIds :
            pc'[c] # "header_read"
                => /\ (odResp[c] \notin {Unset, Pending} => submitted'[c] = submitted[c])
                   /\ (odResp[c] \notin {Unset, Pending} => odResp'[c] = odResp[c])
                   /\ (result[c] # Unset => result'[c] = result[c])
                   /\ (pc[c] = "done" => pc'[c] = "done")]_vars

C4_Witness ==
    \E c \in CallIds :
        /\ pc[c] = "done"
        /\ Len(submitted[c]) = 1
        /\ odResp[c] = Canceled
        /\ IsErr(result[c])
        /\ netEnabled

\* C5: when the proof request resolved with an execution error, the call
\* resolves to an error whose text is "Failed to execute transaction: "
\* followed by the error's own text, unchanged.
C5_ExecutionFailed ==
    \A c \in CallIds :
        (pc[c] = "done" /\ IsOk(odResp[c]) /\ IsErr(odResp[c][2]))
            => /\ result[c] = Err("Failed to execute transaction: " \o odResp[c][2][2])
               /\ result[c] # Err("On-demand service dropped request unexpectedly.")
               /\ result[c] # Err("cannot query registry: network disabled")
               /\ ~IsOk(result[c])

C5_Witness ==
    \E c \in CallIds :
        /\ pc[c] = "done"
        /\ odResp[c] = Ok(Err("Transaction has invalid signature."))
        /\ result[c] = Err("Failed to execute transaction: Transaction has invalid signature.")

\* C9: the transaction of every submitted request is fixed by the call's
\* address and input and the engine's start nonce alone, so two calls with
\* the same address and input submit the same transaction.
C9_TxDeterministic ==
    /\ \A c \in CallIds : \A i \in 1..Len(submitted[c]) :
            submitted[c][i].request.tx =
                [unsigned |-> [nonce |-> startNonce,
                               action |-> <<"Call", args[c].address>>,
                               gas |-> 50000000,
                               gas_price |-> 0,
                               value |-> 0,
                               data |-> args[c].data],
                 sender |-> [k \in 1..AddrBytes |-> 0]]
    /\ \A c, d \in CallIds :
            (HasSubmitted(c) /\ HasSubmitted(d) /\ args[c] = args[d])
                => submitted[c][1].request.tx = submitted[d][1].request.tx

C9_Witness ==
    /\ HasSubmitted(1) /\ HasSubmitted(2)
    /\ args[1] = args[2]
    /\ args[1].data # <<>>
    /\ startNonce # 0
    /\ submitted[1][1].request.header # submitted[2][1].request.header

\* C10: in every submitted request the env_info is that of the block whose
\* header the request holds.
C10_SnapshotConsistent ==
    \A c \in CallIds : \A i \in 1..Len(submitted[c]) :
        submitted[c][i].request.env_info.number = submitted[c][i].request.header.number

(***************************************************************************)
(* Properties of registrar() (RegistrarSpec).                              *)
(***************************************************************************)
\* what the claim says registrar() returns for a parameter map
ExpectedRegistrar(params) ==
    IF "registrar" \notin DOMAIN params
    THEN Err("Registrar not defined.")
    ELSE Address_from_str(params["registrar"])

\* C8: both registrars give the same outcome for the same engine parameters:
\* "Registrar not defined." without the parameter, an "Invalid registrar
\* address: " error with a non-empty diagnostic when it does not parse, and
\* the parsed address otherwise.
C8_RegistrarAddress ==
    \A r \in {fullRes, lightRes} \ {Unset} :
        LET want == ExpectedRegistrar(additional_params)
        IN  /\ IsOk(want) => r = want
            /\ "registrar" \notin DOMAIN additional_params => r = Err("Registrar not defined.")
            /\ ("registrar" \in DOMAIN additional_params /\ IsErr(want))
                    => /\ IsErr(r)
                       /\ Len(want[2]) > 0
                       /\ r[2] = "Invalid registrar address: " \o want[2]
            /\ (fullRes # Unset /\ lightRes # Unset) => fullRes = lightRes

C8_Witness ==
    /\ fullRes # Unset
    /\ lightRes # Unset
    /\ "registrar" \in DOMAIN additional_params
    /\ Len(additional_params["registrar"]) = 2 * AddrBytes + 1
    /\ IsErr(lightRes)

(***************************************************************************)
(* Properties of new() and dapps_middleware (FactorySpec).                 *)
(***************************************************************************)
\* C6: in either build variant, new() with enabled = false returns Ok(None)
\* without invoking dapps_middleware or using any collaborator.
C6_DisabledNoEffect ==
    /\ \A i \in 1..Len(newResults) :
            ~newResults[i].configuration.enabled
                => /\ newResults[i].out.result = Ok(None)
                   /\ ~newResults[i].out.invoked
                   /\ newResults[i].out.touched = {}
    /\ mwCalls = Cardinality({i \in 1..Len(newResults) : newResults[i].configuration.enabled})
    /\ (\A i \in 1..Len(newResults) : ~newResults[i].configuration.enabled)
            => touched = {} /\ served = 0 /\ ~panicked

C6_Witness ==
    /\ feature
    /\ Len(newResults) = 2
    /\ ~newResults[1].configuration.enabled
    /\ ~newResults[2].configuration.enabled
    /\ newResults[1].configuration # newResults[2].configuration

\* C7: without the "dapps" feature dapps_middleware fails with the fixed
\* message for every input, so new() with enabled = true returns that error,
\* no middleware ever exists and on_request is never reached.
C7_HostingNotCompiled ==
    ~feature
        => /\ \A c \in Configurations :
                dapps_middleware(deps, c.dapps_path, c.extra_dapps).result =
                    Err("Your Parity version has been compiled without WebApps support.")
           /\ \A i \in 1..Len(newResults) :
                /\ newResults[i].configuration.enabled
                    => newResults[i].out.result =
                        Err("Your Parity version has been compiled without WebApps support.")
                /\ ~HoldsMiddleware(newResults[i].out.result)
           /\ ~ENABLED OnRequest
           /\ ~panicked
           /\ served = 0

C7_Witness ==
    /\ ~feature
    /\ Len(newResults) = 2
    /\ newResults[1].configuration.enabled
    /\ newResults[2].configuration.enabled
    /\ newResults[1].configuration.dapps_path # newResults[2].configuration.dapps_path

====
